---- MODULE Spec2Model ----
(***************************************************************************)
(* Model of app/calculation.py (the Calculation entity) and app/history.py *)
(* (the history observers).                                                *)
(*                                                                         *)
(* A Decimal is modelled by its representation: a kind ("fin", "inf",      *)
(* "nan", "snan"), a sign (0 or 1), a coefficient held as a sequence of    *)
(* decimal digits, and an exponent.  The arithmetic follows the decimal    *)
(* module under its default context: precision Prec, ROUND_HALF_EVEN, with *)
(* InvalidOperation, DivisionByZero and Overflow trapped (raised).         *)
(* A Python string is a sequence of one-character strings.                 *)
(***************************************************************************)
EXTENDS Integers, Sequences, FiniteSets, TLC

\* Precision of the default decimal context the module computes under.
Prec == 28
\* Exponent of a result clamped to zero (Etiny of the default context).
Etiny == -1000026

(***************************************************************************)
(* Digit sequences.                                                        *)
(***************************************************************************)
Zeros(k) == [i \in 1..k |-> 0]

RECURSIVE StripLeft(_)
StripLeft(ds) ==
    IF Len(ds) > 1 /\ Head(ds) = 0 THEN StripLeft(Tail(ds))
    ELSE IF Len(ds) = 0 THEN <<0>> ELSE ds

RECURSIVE IntOf(_)
IntOf(ds) ==
    IF Len(ds) = 0 THEN 0
    ELSE IntOf(SubSeq(ds, 1, Len(ds) - 1)) * 10 + ds[Len(ds)]

RECURSIVE DigitsOf(_)
DigitsOf(n) == IF n < 10 THEN <<n>> ELSE Append(DigitsOf(n \div 10), n % 10)

RECURSIVE Pow10(_)
Pow10(k) == IF k <= 0 THEN 1 ELSE 10 * Pow10(k - 1)

AllZeros(ds) == \A i \in 1..Len(ds) : ds[i] = 0

\* The coefficient plus one, with carry ("str(int(coeff) + 1)").
RECURSIVE Inc(_)
Inc(ds) ==
    IF Len(ds) = 0 THEN <<1>>
    ELSE IF ds[Len(ds)] < 9
         THEN [ds EXCEPT ![Len(ds)] = ds[Len(ds)] + 1]
         ELSE Append(Inc(SubSeq(ds, 1, Len(ds) - 1)), 0)

\* ROUND_HALF_EVEN: whether keeping the first `keep` digits of ds rounds up.
RoundsUp(ds, keep) ==
    IF keep >= Len(ds) THEN FALSE
    ELSE LET rest == SubSeq(ds, keep + 2, Len(ds))
             exactHalf == ds[keep + 1] = 5 /\ AllZeros(rest)
         IN  IF exactHalf
             THEN keep > 0 /\ ds[keep] % 2 = 1
             ELSE ds[keep + 1] >= 5

\* Lexicographic comparison of two digit sequences of equal length.
RECURSIVE CmpDigits(_, _)
CmpDigits(a, b) ==
    IF Len(a) = 0 THEN 0
    ELSE IF Head(a) < Head(b) THEN -1
    ELSE IF Head(a) > Head(b) THEN 1
    ELSE CmpDigits(Tail(a), Tail(b))

\* Schoolbook division of the number written ds by a small divisor b:
\* <<quotient digits, remainder>>.
RECURSIVE LongDiv(_, _, _, _)
LongDiv(ds, b, r, acc) ==
    IF Len(ds) = 0 THEN <<acc, r>>
    ELSE LET cur == r * 10 + Head(ds)
         IN  LongDiv(Tail(ds), b, cur % b, Append(acc, cur \div b))

(***************************************************************************)
(* Decimal values.                                                         *)
(***************************************************************************)
Dec(s, ds, e) == [kind |-> "fin", sign |-> s, int |-> ds, exp |-> e]
Inf(s) == [kind |-> "inf", sign |-> s, int |-> <<0>>, exp |-> 0]
NaN == [kind |-> "nan", sign |-> 0, int |-> <<0>>, exp |-> 0]
sNaN == [kind |-> "snan", sign |-> 0, int |-> <<0>>, exp |-> 0]
DecInt(n) == Dec(IF n < 0 THEN 1 ELSE 0, DigitsOf(IF n < 0 THEN -n ELSE n), 0)

IsNaN(d) == d.kind \in {"nan", "snan"}
IsZero(d) == d.kind = "fin" /\ AllZeros(d.int)
Adjusted(d) == d.exp + Len(d.int) - 1
Xor(a, b) == IF a = b THEN 0 ELSE 1

\* The outcome of an evaluation: a value, or a raised exception.
Ok(v) == [exc |-> "none", msg |-> <<>>, val |-> v]
Raise(e, m) == [exc |-> e, msg |-> <<m>>, val |-> NaN]

\* Decimal._fix: round a finite value to the context precision.
Fix(d) ==
    IF d.kind # "fin" \/ Len(d.int) <= Prec THEN d
    ELSE LET kept == SubSeq(d.int, 1, Prec)
             up == IF RoundsUp(d.int, Prec) THEN Inc(kept) ELSE kept
             e == d.exp + Len(d.int) - Prec
         IN  IF Len(up) > Prec
             THEN Dec(d.sign, SubSeq(up, 1, Prec), e + 1)
             ELSE Dec(d.sign, up, e)

\* Decimal._check_nans: a signaling NaN raises, a quiet NaN is the result.
CheckNaNs(a, b) ==
    IF a.kind = "snan" \/ b.kind = "snan" THEN Raise("InvalidOperation", "sNaN")
    ELSE Ok(NaN)

\* The signed integer value of d's coefficient at exponent e (e <= d.exp).
Scaled(d, e) == (IF d.sign = 1 THEN -1 ELSE 1) * IntOf(d.int) * Pow10(d.exp - e)
Min(a, b) == IF a < b THEN a ELSE b
Max(a, b) == IF a > b THEN a ELSE b
Abs(n) == IF n < 0 THEN -n ELSE n

\* Decimal.__add__
DecAdd(a, b) ==
    IF IsNaN(a) \/ IsNaN(b) THEN CheckNaNs(a, b)
    ELSE IF a.kind = "inf"
    THEN IF b.kind = "inf" /\ a.sign # b.sign
         THEN Raise("InvalidOperation", "-INF + INF")
         ELSE Ok(a)
    ELSE IF b.kind = "inf" THEN Ok(b)
    ELSE LET e == Min(a.exp, b.exp)
             n == Scaled(a, e) + Scaled(b, e)
         IN  IF IsZero(a) /\ IsZero(b)
             THEN Ok(Fix(Dec(Min(a.sign, b.sign), <<0>>, e)))
             ELSE IF n = 0 THEN Ok(Fix(Dec(0, <<0>>, e)))
             ELSE Ok(Fix(Dec(IF n < 0 THEN 1 ELSE 0, DigitsOf(Abs(n)), e)))

\* Decimal.copy_negate
Negate(d) == [d EXCEPT !.sign = 1 - d.sign]

\* Decimal.__sub__
DecSub(a, b) ==
    IF IsNaN(a) \/ IsNaN(b) THEN CheckNaNs(a, b) ELSE DecAdd(a, Negate(b))

\* Decimal.__mul__
DecMul(a, b) ==
    LET s == Xor(a.sign, b.sign) IN
    IF IsNaN(a) \/ IsNaN(b) THEN CheckNaNs(a, b)
    ELSE IF a.kind = "inf"
    THEN IF IsZero(b) THEN Raise("InvalidOperation", "(+-)INF * 0") ELSE Ok(Inf(s))
    ELSE IF b.kind = "inf"
    THEN IF IsZero(a) THEN Raise("InvalidOperation", "0 * (+-)INF") ELSE Ok(Inf(s))
    ELSE IF IsZero(a) \/ IsZero(b) THEN Ok(Fix(Dec(s, <<0>>, a.exp + b.exp)))
    ELSE Ok(Fix(Dec(s, DigitsOf(IntOf(a.int) * IntOf(b.int)), a.exp + b.exp)))

\* An exact quotient is brought as close to the ideal exponent as its
\* trailing zeros allow.
RECURSIVE ToIdeal(_, _, _)
ToIdeal(ds, e, ideal) ==
    IF e < ideal /\ Len(ds) > 1 /\ ds[Len(ds)] = 0
    THEN ToIdeal(SubSeq(ds, 1, Len(ds) - 1), e + 1, ideal)
    ELSE <<ds, e>>

\* Decimal.__truediv__
DecDiv(a, b) ==
    LET s == Xor(a.sign, b.sign) IN
    IF IsNaN(a) \/ IsNaN(b) THEN CheckNaNs(a, b)
    ELSE IF a.kind = "inf"
    THEN IF b.kind = "inf" THEN Raise("InvalidOperation", "(+-)INF/(+-)INF")
         ELSE Ok(Inf(s))
    ELSE IF b.kind = "inf" THEN Ok(Dec(s, <<0>>, Etiny))
    ELSE IF IsZero(b)
    THEN IF IsZero(a) THEN Raise("InvalidOperation", "0 / 0")
         ELSE Raise("DivisionByZero", "x / 0")
    ELSE IF IsZero(a) THEN Ok(Fix(Dec(s, <<0>>, a.exp - b.exp)))
    ELSE LET shift == Len(b.int) - Len(a.int) + Prec + 1
             e == a.exp - b.exp - shift
             qr == LongDiv(a.int \o Zeros(shift), IntOf(b.int), 0, <<>>)
             q == StripLeft(qr[1])
             last == q[Len(q)]
         IN  IF qr[2] # 0
             THEN Ok(Fix(Dec(s, IF last % 5 = 0
                                THEN [q EXCEPT ![Len(q)] = last + 1] ELSE q, e)))
             ELSE LET t == ToIdeal(q, e, a.exp - b.exp)
                  IN  Ok(Fix(Dec(s, t[1], t[2])))

\* Decimal.__mod__
DecMod(a, b) ==
    IF IsNaN(a) \/ IsNaN(b) THEN CheckNaNs(a, b)
    ELSE IF a.kind = "inf" THEN Raise("InvalidOperation", "INF % x")
    ELSE IF IsZero(b)
    THEN IF IsZero(a) THEN Raise("InvalidOperation", "0 % 0")
         ELSE Raise("InvalidOperation", "x % 0")
    ELSE IF b.kind = "inf" THEN Ok(Fix(a))
    ELSE LET e == Min(a.exp, b.exp)
         IN  IF IsZero(a) THEN Ok(Fix(Dec(a.sign, <<0>>, e)))
             ELSE Ok(Fix(Dec(a.sign,
                             DigitsOf(Abs(Scaled(a, e)) % Abs(Scaled(b, e))), e)))

\* Decimal._cmp on two values that are not NaN: -1, 0 or 1.
DecCmp(a, b) ==
    LET sgn(d) == IF d.sign = 1 THEN -1 ELSE 1 IN
    IF a.kind = "inf" \/ b.kind = "inf"
    THEN LET ia == IF a.kind = "inf" THEN sgn(a) ELSE 0
             ib == IF b.kind = "inf" THEN sgn(b) ELSE 0
         IN  IF ia = ib THEN 0 ELSE IF ia < ib THEN -1 ELSE 1
    ELSE IF IsZero(a) THEN (IF IsZero(b) THEN 0 ELSE -sgn(b))
    ELSE IF IsZero(b) THEN sgn(a)
    ELSE IF b.sign < a.sign THEN -1
    ELSE IF a.sign < b.sign THEN 1
    ELSE IF Adjusted(a) # Adjusted(b)
    THEN (IF Adjusted(a) > Adjusted(b) THEN sgn(a) ELSE -sgn(a))
    ELSE LET w == Max(Len(a.int), Len(b.int))
             c == CmpDigits(a.int \o Zeros(w - Len(a.int)),
                            b.int \o Zeros(w - Len(b.int)))
         IN  c * sgn(a)

\* Decimal.__eq__ / __ne__: a signaling NaN raises, a quiet NaN is unequal
\* to everything.  val is the truth of "a != b".
DecNe(a, b) ==
    IF a.kind = "snan" \/ b.kind = "snan" THEN Raise("InvalidOperation", "sNaN")
    ELSE IF IsNaN(a) \/ IsNaN(b) THEN Ok(TRUE)
    ELSE Ok(DecCmp(a, b) # 0)

\* Decimal.__ge__: any NaN raises.  val is the truth of "a >= b".
DecGe(a, b) ==
    IF IsNaN(a) \/ IsNaN(b)
    THEN Raise("InvalidOperation", "comparison involving NaN")
    ELSE Ok(DecCmp(a, b) >= 0)

(***************************************************************************)
(* Strings: str(Decimal) and Decimal(str).                                 *)
(***************************************************************************)
DigitChar == <<"0", "1", "2", "3", "4", "5", "6", "7", "8", "9">>
IsDigitChar(c) == \E i \in 1..10 : DigitChar[i] = c
DigitVal(c) == (CHOOSE i \in 1..10 : DigitChar[i] = c) - 1
DigitChars(ds) == [i \in 1..Len(ds) |-> DigitChar[ds[i] + 1]]
DigitVals(cs) == [i \in 1..Len(cs) |-> DigitVal(cs[i])]

InfinityStr == <<"I", "n", "f", "i", "n", "i", "t", "y">>
InfStr == <<"I", "n", "f">>
NaNStr == <<"N", "a", "N">>
sNaNStr == <<"s", "N", "a", "N">>

\* Decimal.__str__: scientific notation, plain when the exponent is not
\* positive and the value is not smaller than 1E-6.
DecStr(d) ==
    LET sign == IF d.sign = 1 THEN <<"-">> ELSE <<>>
        n == Len(d.int)
        leftdigits == d.exp + n
        dotplace == IF d.exp <= 0 /\ leftdigits > -6 THEN leftdigits ELSE 1
        digits == DigitChars(d.int)
        intpart == IF dotplace <= 0 THEN <<"0">>
                   ELSE IF dotplace >= n
                        THEN digits \o [i \in 1..(dotplace - n) |-> "0"]
                        ELSE SubSeq(digits, 1, dotplace)
        fracpart == IF dotplace <= 0
                    THEN <<".">> \o [i \in 1..(-dotplace) |-> "0"] \o digits
                    ELSE IF dotplace >= n THEN <<>>
                         ELSE <<".">> \o SubSeq(digits, dotplace + 1, n)
        e == leftdigits - dotplace
        exppart == IF e = 0 THEN <<>>
                   ELSE <<"E", IF e < 0 THEN "-" ELSE "+">>
                        \o DigitChars(DigitsOf(Abs(e)))
    IN  CASE d.kind = "inf" -> sign \o InfinityStr
          [] d.kind = "nan" -> sign \o NaNStr
          [] d.kind = "snan" -> sign \o sNaNStr
          [] OTHER -> sign \o intpart \o fracpart \o exppart

\* The number of leading digit characters of cs.
RECURSIVE CountDigits(_)
CountDigits(cs) ==
    IF Len(cs) > 0 /\ IsDigitChar(Head(cs)) THEN 1 + CountDigits(Tail(cs)) ELSE 0

Drop(cs, k) == SubSeq(cs, k + 1, Len(cs))

\* Decimal(str): the decimal module's parser.  A string it does not match
\* raises InvalidOperation (ConversionSyntax).
DecParse(cs) ==
    LET bad == Raise("InvalidOperation", "ConversionSyntax")
        signed == Len(cs) > 0 /\ Head(cs) \in {"-", "+"}
        s == IF signed /\ Head(cs) = "-" THEN 1 ELSE 0
        body == IF signed THEN Tail(cs) ELSE cs
        ni == CountDigits(body)
        afterInt == Drop(body, ni)
        hasDot == Len(afterInt) > 0 /\ Head(afterInt) = "."
        nf == IF hasDot THEN CountDigits(Tail(afterInt)) ELSE 0
        afterFrac == IF hasDot THEN Drop(afterInt, nf + 1) ELSE afterInt
        hasExp == Len(afterFrac) > 0 /\ Head(afterFrac) \in {"E", "e"}
        expBody == IF hasExp THEN Tail(afterFrac) ELSE <<>>
        expSigned == Len(expBody) > 0 /\ Head(expBody) \in {"-", "+"}
        expDigits == IF expSigned THEN Tail(expBody) ELSE expBody
        ne == CountDigits(expDigits)
        e == IF hasExp
             THEN (IF expSigned /\ Head(expBody) = "-" THEN -1 ELSE 1)
                  * IntOf(DigitVals(expDigits))
             ELSE 0
        coeff == DigitVals(SubSeq(body, 1, ni))
                 \o (IF hasDot THEN DigitVals(SubSeq(afterInt, 2, nf + 1)) ELSE <<>>)
    IN  IF body = InfinityStr \/ body = InfStr THEN Ok(Inf(s))
        ELSE IF body = NaNStr THEN Ok([NaN EXCEPT !.sign = s])
        ELSE IF body = sNaNStr THEN Ok([sNaN EXCEPT !.sign = s])
        ELSE IF ni + nf = 0 THEN bad
        ELSE IF hasExp /\ (ne = 0 \/ ne # Len(expDigits)) THEN bad
        ELSE IF ~hasExp /\ Len(afterFrac) # 0 THEN bad
        ELSE Ok(Dec(s, StripLeft(coeff), e - nf))

(***************************************************************************)
(* Floating point: float(Decimal), pow, Decimal(float).  A double is named *)
(* by its repr.  The tables hold what the interpreter computes for the     *)
(* doubles that the operands of this model produce.                        *)
(***************************************************************************)
\* float(str(d)): the double of each operand string, named by its repr.
FloatOfStr ==
    (<<"0">> :> "0.0")
    @@ (<<"1">> :> "1.0")
    @@ (<<"2">> :> "2.0")
    @@ (<<"3">> :> "3.0")
    @@ (<<"-", "2">> :> "-2.0")
    @@ (<<"0", ".", "5">> :> "0.5")
    @@ (<<"1", "E", "+", "1">> :> "10.0")
    @@ (<<"I", "n", "f", "i", "n", "i", "t", "y">> :> "inf")
    @@ (<<"N", "a", "N">> :> "nan")

\* 1 / float(y) of line 38.
FloatInverse ==
    ("0.0" :> "ZeroDivisionError")
    @@ ("1.0" :> "1.0")
    @@ ("2.0" :> "0.5")
    @@ ("3.0" :> "0.3333333333333333")
    @@ ("-2.0" :> "-0.5")
    @@ ("0.5" :> "2.0")
    @@ ("10.0" :> "0.1")
    @@ ("inf" :> "0.0")
    @@ ("nan" :> "nan")

\* pow(x, y) on doubles: the double returned, "complex" for a complex
\* result, or the exception raised.
FloatPowRows ==
    { <<"0.0", "0.0", "1.0">>,
      <<"0.0", "1.0", "0.0">>,
      <<"0.0", "2.0", "0.0">>,
      <<"0.0", "3.0", "0.0">>,
      <<"0.0", "-2.0", "ZeroDivisionError">>,
      <<"0.0", "0.5", "0.0">>,
      <<"0.0", "10.0", "0.0">>,
      <<"0.0", "inf", "0.0">>,
      <<"0.0", "nan", "nan">>,
      <<"0.0", "0.3333333333333333", "0.0">>,
      <<"0.0", "-0.5", "ZeroDivisionError">>,
      <<"0.0", "0.1", "0.0">>,
      <<"1.0", "0.0", "1.0">>,
      <<"1.0", "1.0", "1.0">>,
      <<"1.0", "2.0", "1.0">>,
      <<"1.0", "3.0", "1.0">>,
      <<"1.0", "-2.0", "1.0">>,
      <<"1.0", "0.5", "1.0">>,
      <<"1.0", "10.0", "1.0">>,
      <<"1.0", "inf", "1.0">>,
      <<"1.0", "nan", "1.0">>,
      <<"1.0", "0.3333333333333333", "1.0">>,
      <<"1.0", "-0.5", "1.0">>,
      <<"1.0", "0.1", "1.0">>,
      <<"2.0", "0.0", "1.0">>,
      <<"2.0", "1.0", "2.0">>,
      <<"2.0", "2.0", "4.0">>,
      <<"2.0", "3.0", "8.0">>,
      <<"2.0", "-2.0", "0.25">>,
      <<"2.0", "0.5", "1.4142135623730951">>,
      <<"2.0", "10.0", "1024.0">>,
      <<"2.0", "inf", "inf">>,
      <<"2.0", "nan", "nan">>,
      <<"2.0", "0.3333333333333333", "1.2599210498948732">>,
      <<"2.0", "-0.5", "0.7071067811865476">>,
      <<"2.0", "0.1", "1.0717734625362931">>,
      <<"3.0", "0.0", "1.0">>,
      <<"3.0", "1.0", "3.0">>,
      <<"3.0", "2.0", "9.0">>,
      <<"3.0", "3.0", "27.0">>,
      <<"3.0", "-2.0", "0.1111111111111111">>,
      <<"3.0", "0.5", "1.7320508075688772">>,
      <<"3.0", "10.0", "59049.0">>,
      <<"3.0", "inf", "inf">>,
      <<"3.0", "nan", "nan">>,
      <<"3.0", "0.3333333333333333", "1.4422495703074083">>,
      <<"3.0", "-0.5", "0.5773502691896257">>,
      <<"3.0", "0.1", "1.1161231740339044">>,
      <<"-2.0", "0.0", "1.0">>,
      <<"-2.0", "1.0", "-2.0">>,
      <<"-2.0", "2.0", "4.0">>,
      <<"-2.0", "3.0", "-8.0">>,
      <<"-2.0", "-2.0", "0.25">>,
      <<"-2.0", "0.5", "complex">>,
      <<"-2.0", "10.0", "1024.0">>,
      <<"-2.0", "inf", "inf">>,
      <<"-2.0", "nan", "nan">>,
      <<"-2.0", "0.3333333333333333", "complex">>,
      <<"-2.0", "-0.5", "complex">>,
      <<"-2.0", "0.1", "complex">>,
      <<"0.5", "0.0", "1.0">>,
      <<"0.5", "1.0", "0.5">>,
      <<"0.5", "2.0", "0.25">>,
      <<"0.5", "3.0", "0.125">>,
      <<"0.5", "-2.0", "4.0">>,
      <<"0.5", "0.5", "0.7071067811865476">>,
      <<"0.5", "10.0", "0.0009765625">>,
      <<"0.5", "inf", "0.0">>,
      <<"0.5", "nan", "nan">>,
      <<"0.5", "0.3333333333333333", "0.7937005259840998">>,
      <<"0.5", "-0.5", "1.4142135623730951">>,
      <<"0.5", "0.1", "0.9330329915368074">>,
      <<"10.0", "0.0", "1.0">>,
      <<"10.0", "1.0", "10.0">>,
      <<"10.0", "2.0", "100.0">>,
      <<"10.0", "3.0", "1000.0">>,
      <<"10.0", "-2.0", "0.01">>,
      <<"10.0", "0.5", "3.1622776601683795">>,
      <<"10.0", "10.0", "10000000000.0">>,
      <<"10.0", "inf", "inf">>,
      <<"10.0", "nan", "nan">>,
      <<"10.0", "0.3333333333333333", "2.154434690031884">>,
      <<"10.0", "-0.5", "0.31622776601683794">>,
      <<"10.0", "0.1", "1.2589254117941673">>,
      <<"inf", "0.0", "1.0">>,
      <<"inf", "1.0", "inf">>,
      <<"inf", "2.0", "inf">>,
      <<"inf", "3.0", "inf">>,
      <<"inf", "-2.0", "0.0">>,
      <<"inf", "0.5", "inf">>,
      <<"inf", "10.0", "inf">>,
      <<"inf", "inf", "inf">>,
      <<"inf", "nan", "nan">>,
      <<"inf", "0.3333333333333333", "inf">>,
      <<"inf", "-0.5", "0.0">>,
      <<"inf", "0.1", "inf">>,
      <<"nan", "0.0", "1.0">>,
      <<"nan", "1.0", "nan">>,
      <<"nan", "2.0", "nan">>,
      <<"nan", "3.0", "nan">>,
      <<"nan", "-2.0", "nan">>,
      <<"nan", "0.5", "nan">>,
      <<"nan", "10.0", "nan">>,
      <<"nan", "inf", "nan">>,
      <<"nan", "nan", "nan">>,
      <<"nan", "0.3333333333333333", "nan">>,
      <<"nan", "-0.5", "nan">>,
      <<"nan", "0.1", "nan">> }

FloatPow(fx, fy) ==
    (CHOOSE row \in FloatPowRows : row[1] = fx /\ row[2] = fy)[3]

\* Decimal(f): the exact decimal expansion of each double.
DecimalOfFloatRows ==
    { <<"1.0", Dec(0, <<1>>, 0)>>,
      <<"0.0", Dec(0, <<0>>, 0)>>,
      <<"nan", NaN>>,
      <<"2.0", Dec(0, <<2>>, 0)>>,
      <<"4.0", Dec(0, <<4>>, 0)>>,
      <<"8.0", Dec(0, <<8>>, 0)>>,
      <<"0.25", Dec(0, <<2, 5>>, -2)>>,
      <<"1.4142135623730951", Dec(0, <<1, 4, 1, 4, 2, 1, 3, 5, 6, 2, 3, 7, 3, 0,
              9, 5, 1, 4, 5, 4, 7, 4, 6, 2, 1, 8, 5, 8, 7, 3, 8, 8, 2, 8, 4, 5,
              0, 4, 4, 1, 3, 6, 0, 4, 7, 3, 6, 3, 2, 8, 1, 2, 5>>, -52)>>,
      <<"1024.0", Dec(0, <<1, 0, 2, 4>>, 0)>>,
      <<"inf", Inf(0)>>,
      <<"1.2599210498948732", Dec(0, <<1, 2, 5, 9, 9, 2, 1, 0, 4, 9, 8, 9, 4, 8,
              7, 3, 1, 9, 0, 6, 6, 6, 5, 4, 4, 3, 6, 0, 2, 8, 3, 2, 9, 6, 5, 5,
              5, 2, 8, 0, 6, 8, 5, 4, 2, 4, 8, 0, 4, 6, 8, 7, 5>>, -52)>>,
      <<"0.7071067811865476", Dec(0, <<7, 0, 7, 1, 0, 6, 7, 8, 1, 1, 8, 6, 5, 4,
              7, 5, 7, 2, 7, 3, 7, 3, 1, 0, 9, 2, 9, 3, 6, 9, 4, 1, 4, 2, 2, 5,
              2, 2, 0, 6, 8, 0, 2, 3, 6, 8, 1, 6, 4, 0, 6, 2, 5>>, -53)>>,
      <<"1.0717734625362931", Dec(0, <<1, 0, 7, 1, 7, 7, 3, 4, 6, 2, 5, 3, 6, 2,
              9, 3, 1, 3, 1, 1, 0, 8, 7, 7, 7, 7, 4, 3, 0, 6, 5, 7, 2, 9, 7, 3,
              7, 2, 8, 1, 7, 9, 9, 3, 1, 6, 4, 0, 6, 2, 5>>, -50)>>,
      <<"3.0", Dec(0, <<3>>, 0)>>,
      <<"9.0", Dec(0, <<9>>, 0)>>,
      <<"27.0", Dec(0, <<2, 7>>, 0)>>,
      <<"0.1111111111111111", Dec(0, <<1, 1, 1, 1, 1, 1, 1, 1, 1, 1, 1, 1, 1, 1,
              1, 1, 0, 4, 9, 4, 3, 2, 0, 5, 4, 1, 8, 7, 4, 9, 1, 3, 0, 3, 3, 0,
              9, 7, 9, 8, 2, 4, 0, 6, 6, 1, 6, 2, 1, 0, 9, 3, 7, 5>>, -54)>>,
      <<"1.7320508075688772", Dec(0, <<1, 7, 3, 2, 0, 5, 0, 8, 0, 7, 5, 6, 8, 8,
              7, 7, 1, 9, 3, 1, 7, 6, 6, 0, 4, 1, 2, 3, 4, 3, 6, 8, 4, 5, 8, 3,
              9, 0, 2, 3, 5, 9, 0, 0, 8, 7, 8, 9, 0, 6, 2, 5>>, -51)>>,
      <<"59049.0", Dec(0, <<5, 9, 0, 4, 9>>, 0)>>,
      <<"1.4422495703074083", Dec(0, <<1, 4, 4, 2, 2, 4, 9, 5, 7, 0, 3, 0, 7, 4,
              0, 8, 3, 0, 1, 7, 7, 2, 5, 1, 1, 5, 4, 9, 6, 4, 3, 2, 4, 0, 8, 6,
              9, 0, 4, 5, 2, 5, 7, 5, 6, 8, 3, 5, 9, 3, 7, 5>>, -51)>>,
      <<"0.5773502691896257", Dec(0, <<5, 7, 7, 3, 5, 0, 2, 6, 9, 1, 8, 9, 6, 2,
              5, 7, 3, 1, 0, 5, 8, 8, 6, 8, 0, 4, 1, 1, 4, 5, 6, 1, 5, 2, 7, 9,
              6, 7, 4, 5, 3, 0, 0, 2, 9, 2, 9, 6, 8, 7, 5>>, -51)>>,
      <<"1.1161231740339044", Dec(0, <<1, 1, 1, 6, 1, 2, 3, 1, 7, 4, 0, 3, 3, 9,
              0, 4, 3, 7, 4, 9, 7, 9, 8, 9, 7, 5, 1, 1, 3, 6, 6, 2, 8, 9, 1, 0,
              8, 9, 9, 1, 6, 2, 2, 9, 2, 4, 8, 0, 4, 6, 8, 7, 5>>, -52)>>,
      <<"-2.0", Dec(1, <<2>>, 0)>>,
      <<"-8.0", Dec(1, <<8>>, 0)>>,
      <<"0.5", Dec(0, <<5>>, -1)>>,
      <<"0.125", Dec(0, <<1, 2, 5>>, -3)>>,
      <<"0.0009765625", Dec(0, <<9, 7, 6, 5, 6, 2, 5>>, -10)>>,
      <<"0.7937005259840998", Dec(0, <<7, 9, 3, 7, 0, 0, 5, 2, 5, 9, 8, 4, 0, 9,
              9, 7, 9, 1, 7, 2, 0, 8, 9, 3, 7, 9, 0, 6, 2, 5, 2, 6, 8, 5, 9, 3,
              4, 3, 0, 5, 1, 9, 1, 0, 4, 0, 0, 3, 9, 0, 6, 2, 5>>, -53)>>,
      <<"0.9330329915368074", Dec(0, <<9, 3, 3, 0, 3, 2, 9, 9, 1, 5, 3, 6, 8, 0,
              7, 4, 1, 0, 0, 7, 1, 2, 1, 9, 2, 3, 7, 5, 7, 9, 4, 9, 8, 4, 4, 0,
              0, 2, 7, 2, 3, 6, 9, 3, 8, 4, 7, 6, 5, 6, 2, 5>>, -52)>>,
      <<"10.0", Dec(0, <<1, 0>>, 0)>>,
      <<"100.0", Dec(0, <<1, 0, 0>>, 0)>>,
      <<"1000.0", Dec(0, <<1, 0, 0, 0>>, 0)>>,
      <<"0.01", Dec(0, <<1, 0, 0, 0, 0, 0, 0, 0, 0, 0, 0, 0, 0, 0, 0, 0, 0, 2,
              0, 8, 1, 6, 6, 8, 1, 7, 1, 1, 7, 2, 1, 6, 8, 5, 1, 3, 2, 9, 4, 3,
              0, 9, 3, 7, 7, 6, 7, 0, 2, 8, 8, 0, 8, 5, 9, 3, 7, 5>>, -59)>>,
      <<"3.1622776601683795", Dec(0, <<3, 1, 6, 2, 2, 7, 7, 6, 6, 0, 1, 6, 8, 3,
              7, 9, 5, 2, 2, 7, 8, 7, 0, 6, 3, 2, 5, 1, 5, 9, 8, 7, 3, 8, 1, 3,
              3, 9, 0, 7, 3, 1, 8, 1, 1, 5, 2, 3, 4, 3, 7, 5>>, -51)>>,
      <<"10000000000.0", Dec(0, <<1, 0, 0, 0, 0, 0, 0, 0, 0, 0, 0>>, 0)>>,
      <<"2.154434690031884", Dec(0, <<2, 1, 5, 4, 4, 3, 4, 6, 9, 0, 0, 3, 1, 8,
              8, 3, 8, 1, 4, 4, 9, 8, 3, 1, 4, 6, 7, 7, 6, 2, 1, 2, 3, 7, 9, 3,
              3, 6, 3, 5, 7, 1, 1, 6, 6, 9, 9, 2, 1, 8, 7, 5>>, -51)>>,
      <<"0.31622776601683794", Dec(0, <<3, 1, 6, 2, 2, 7, 7, 6, 6, 0, 1, 6, 8,
              3, 7, 9, 4, 1, 1, 7, 6, 4, 7, 6, 0, 7, 8, 9, 0, 8, 3, 0, 8, 4, 0,
              9, 1, 5, 4, 4, 1, 5, 1, 3, 0, 6, 1, 5, 2, 3, 4, 3, 7, 5>>, -54)>>,
      <<"1.2589254117941673", Dec(0, <<1, 2, 5, 8, 9, 2, 5, 4, 1, 1, 7, 9, 4, 1,
              6, 7, 2, 8, 1, 6, 9, 8, 2, 6, 4, 5, 5, 9, 9, 6, 3, 7, 1, 8, 0, 5,
              6, 6, 7, 8, 7, 7, 1, 9, 7, 2, 6, 5, 6, 2, 5>>, -50)>> }

DecimalOfFloat(f) ==
    (CHOOSE row \in DecimalOfFloatRows : row[1] = f)[2]

\* float(d) = float(str(d)); a signaling NaN raises ValueError.
FloatOf(d) ==
    IF d.kind = "snan"
    THEN Raise("ValueError", "cannot convert signaling NaN to float")
    ELSE Ok(FloatOfStr[DecStr(d)])

\* Decimal(pow(fx, fy)): pow may raise, and a complex result is refused by
\* the Decimal constructor with TypeError.
DecimalOfPow(fx, fy) ==
    LET r == FloatPow(fx, fy) IN
    IF r \in {"OverflowError", "ZeroDivisionError"} THEN Raise(r, "pow")
    ELSE IF r = "complex"
    THEN Raise("TypeError", "conversion from complex to Decimal is not supported")
    ELSE Ok(DecimalOfFloat(r))

(***************************************************************************)
(* Calculation (app/calculation.py).                                       *)
(***************************************************************************)
\* One statement after another: the value of the first is computed once and
\* the rest of the body, F, continues with it.
Then(r, F(_)) == F(r)

Zero == DecInt(0)

OperationNames ==
    {"Addition", "Subtraction", "Multiplication", "Division",
     "Power", "Root", "Average", "Mod"}

\* _raise_error.  OperationError is imported from app.exceptions; it is taken
\* to be an exception class of its own, which neither except clause of this
\* module catches.  Only the messages would differ if one did: the kind of
\* the exception raised is OperationError either way.
raise_error(message) == Raise("OperationError", message)

Addition(x, y) == DecAdd(x, y)

\* A faulty subtraction, with the operands exchanged.
Subtraction_reversed(x, y) == DecSub(y, x)

Subtraction(x, y) == DecSub(x, y)

Multiplication(x, y) == DecMul(x, y)

\* x / y if y != 0 else _raise_error(...)
Division(x, y) ==
    LET ne == DecNe(y, Zero) IN
    IF ne.exc # "none" THEN Raise(ne.exc, ne.msg[1])
    ELSE IF ne.val THEN DecDiv(x, y)
    ELSE raise_error("Division by zero is not allowed")

\* A faulty power, without the guard on the exponent.
Power_unguarded(x, y) ==
    LET fx == FloatOf(x)
        fy == FloatOf(y)
    IN  IF fx.exc # "none" THEN fx
        ELSE IF fy.exc # "none" THEN fy
        ELSE DecimalOfPow(fx.val, fy.val)

\* Decimal(pow(float(x), float(y))) if y >= 0 else _raise_error(...)
Power(x, y) ==
    LET ge == DecGe(y, Zero)
        fx == FloatOf(x)
        fy == FloatOf(y)
    IN  IF ge.exc # "none" THEN Raise(ge.exc, ge.msg[1])
        ELSE IF ~ge.val THEN raise_error("Negative exponents are not supported")
        ELSE IF fx.exc # "none" THEN fx
        ELSE IF fy.exc # "none" THEN fy
        ELSE DecimalOfPow(fx.val, fy.val)

\* Decimal(pow(float(x), 1/float(y))) if x >= 0 and y != 0 else _raise_error(...)
Root(x, y) ==
    LET ge == DecGe(x, Zero)
        ne == DecNe(y, Zero)
        fx == FloatOf(x)
        fy == FloatOf(y)
        inv == FloatInverse[fy.val]
    IN  IF ge.exc # "none" THEN Raise(ge.exc, ge.msg[1])
        ELSE IF ~ge.val THEN raise_error("Invalid root operation")
        ELSE IF ne.exc # "none" THEN Raise(ne.exc, ne.msg[1])
        ELSE IF ~ne.val THEN raise_error("Invalid root operation")
        ELSE IF fx.exc # "none" THEN fx
        ELSE IF fy.exc # "none" THEN fy
        ELSE IF inv = "ZeroDivisionError"
        THEN Raise("ZeroDivisionError", "float division by zero")
        ELSE DecimalOfPow(fx.val, inv)

\* (x + y) / 2
Average(x, y) ==
    LET sum == DecAdd(x, y) IN
    IF sum.exc # "none" THEN sum ELSE DecDiv(sum.val, DecInt(2))

\* x % y if y != 0 else _raise_error(...)
Mod(x, y) ==
    LET ne == DecNe(y, Zero) IN
    IF ne.exc # "none" THEN Raise(ne.exc, ne.msg[1])
    ELSE IF ne.val THEN DecMod(x, y)
    ELSE raise_error("Division by zero is not allowed")

\* A faulty lookup, which divides when the operation is not in the table.
apply_operation_lenient(operation, x, y) ==
    CASE operation = "Addition" -> Addition(x, y)
      [] operation = "Subtraction" -> Subtraction(x, y)
      [] operation = "Multiplication" -> Multiplication(x, y)
      [] operation = "Power" -> Power(x, y)
      [] operation = "Root" -> Root(x, y)
      [] operation = "Average" -> Average(x, y)
      [] operation = "Mod" -> Mod(x, y)
      [] OTHER -> Division(x, y)

\* _apply_operation: look the operation up, then apply it.
apply_operation(operation, x, y) ==
    IF operation \notin OperationNames
    THEN [exc |-> "OperationError",
          msg |-> <<"Unknown operation: ", operation>>, val |-> NaN]
    ELSE CASE operation = "Addition" -> Addition(x, y)
           [] operation = "Subtraction" -> Subtraction(x, y)
           [] operation = "Multiplication" -> Multiplication(x, y)
           [] operation = "Division" -> Division(x, y)
           [] operation = "Power" -> Power(x, y)
           [] operation = "Root" -> Root(x, y)
           [] operation = "Average" -> Average(x, y)
           [] operation = "Mod" -> Mod(x, y)

\* The exceptions "except (InvalidOperation, ValueError, ArithmeticError)"
\* catches: the decimal signals and the float errors are ArithmeticErrors.
CaughtByPerform ==
    {"InvalidOperation", "DivisionByZero", "Overflow", "ValueError",
     "ZeroDivisionError", "OverflowError"}

\* _perform_calculation
perform_calculation(operation, x, y) ==
    Then(apply_operation(operation, x, y), LAMBDA r :
        IF r.exc \in CaughtByPerform
        THEN [exc |-> "OperationError",
              msg |-> <<"Calculation failed: ">> \o r.msg, val |-> NaN]
        ELSE r)

\* Calculation(operation, operand1, operand2): the dataclass constructor and
\* __post_init__; now is datetime.datetime.now().  val is the sequence of
\* the objects constructed: one Calculation, or none when it raised.
Calculation(operation, x, y, now) ==
    Then(perform_calculation(operation, x, y), LAMBDA r :
        IF r.exc # "none" THEN [exc |-> r.exc, msg |-> r.msg, val |-> <<>>]
        ELSE [exc |-> "none", msg |-> <<>>,
              val |-> <<[operation |-> operation, operand1 |-> x, operand2 |-> y,
                         result |-> r.val, timestamp |-> now]>>])

\* A value held under a key of a portable record: a string, None (standing
\* for any value that is neither a string nor a number), or no value at all
\* (the key is absent).
Str(cs) == [kind |-> "str", chars |-> cs]
None == [kind |-> "none", chars |-> <<>>]
Absent == [kind |-> "absent", chars |-> <<>>]

\* datetime.isoformat, reduced to the seconds and microseconds of the time:
\* the microseconds are left out when they are zero.
TwoDigits(n) == <<DigitChar[(n \div 10) + 1], DigitChar[(n % 10) + 1]>>
SixDigits(n) == DigitChars(Zeros(6 - Len(DigitsOf(n))) \o DigitsOf(n))
isoformat(t) ==
    <<"T">> \o TwoDigits(t.second)
    \o (IF t.microsecond = 0 THEN <<>> ELSE <<".">> \o SixDigits(t.microsecond))

\* datetime.fromisoformat: TypeError for a value that is no string,
\* ValueError for a string that is no ISO-8601 time.
fromisoformat(v) ==
    LET cs == v.chars
        bad == Raise("ValueError", "Invalid isoformat string")
        frac == Drop(cs, 4)
        shaped == /\ Len(cs) \in {3, 7, 10}
                  /\ cs[1] = "T"
                  /\ CountDigits(Tail(cs)) = 2
                  /\ Len(cs) > 3 => cs[4] = "." /\ CountDigits(frac) = Len(frac)
        sec == IntOf(DigitVals(SubSeq(cs, 2, 3)))
        us == IF Len(cs) = 3 THEN 0
              ELSE IntOf(DigitVals(frac)) * Pow10(6 - Len(frac))
    IN  IF v.kind # "str"
        THEN Raise("TypeError", "fromisoformat: argument must be str")
        ELSE IF ~shaped THEN bad
        ELSE IF sec > 59 THEN Raise("ValueError", "second must be in 0..59")
        ELSE Ok([second |-> sec, microsecond |-> us])

\* A faulty to_dict, with the two operands under each other's key.
to_dict_swapped(self) ==
    [operation |-> Str(<<self.operation>>),
     operand1 |-> Str(DecStr(self.operand2)),
     operand2 |-> Str(DecStr(self.operand1)),
     result |-> Str(DecStr(self.result)),
     timestamp |-> Str(isoformat(self.timestamp))]

\* to_dict
to_dict(self) ==
    [operation |-> Str(<<self.operation>>),
     operand1 |-> Str(DecStr(self.operand1)),
     operand2 |-> Str(DecStr(self.operand2)),
     result |-> Str(DecStr(self.result)),
     timestamp |-> Str(isoformat(self.timestamp))]

\* data[key]: KeyError when the key is absent.
GetItem(v, key) == IF v.kind = "absent" THEN Raise("KeyError", key) ELSE Ok(v)

\* Decimal(data[key]): KeyError for an absent key, TypeError for a value
\* the constructor does not convert, InvalidOperation for a malformed string.
DecimalOfItem(v, key) ==
    IF v.kind = "absent" THEN Raise("KeyError", key)
    ELSE IF v.kind = "none"
    THEN Raise("TypeError", "conversion from NoneType to Decimal is not supported")
    ELSE DecParse(v.chars)

\* _validate_result: the number of warnings logged (0 or 1); the comparison
\* raises on a signaling NaN.
validate_result(calc, saved_result) ==
    LET ne == DecNe(calc.result, saved_result) IN
    IF ne.exc # "none" THEN Raise(ne.exc, ne.msg[1])
    ELSE Ok(IF ne.val THEN 1 ELSE 0)

\* The exceptions "except (KeyError, InvalidOperation, ValueError)" catches.
CaughtByFromDict == {"KeyError", "InvalidOperation", "ValueError"}

\* A step of from_dict that raised: nothing is returned, nothing was logged.
Failed(r) == [exc |-> r.exc, msg |-> r.msg, val |-> <<>>, warnings |-> 0]

\* The body of the try of from_dict: the Calculation is constructed from the
\* three fields, its timestamp is replaced, and the stored result is compared.
try_from_dict(data, now) ==
    Then(GetItem(data.operation, "operation"), LAMBDA name :
    IF name.exc # "none" THEN Failed(name) ELSE
    Then(DecimalOfItem(data.operand1, "operand1"), LAMBDA x :
    IF x.exc # "none" THEN Failed(x) ELSE
    Then(DecimalOfItem(data.operand2, "operand2"), LAMBDA y :
    IF y.exc # "none" THEN Failed(y) ELSE
    Then(Calculation(IF name.val.kind = "str" THEN name.val.chars[1] ELSE "None",
                     x.val, y.val, now), LAMBDA made :
    IF made.exc # "none" THEN Failed(made) ELSE
    Then(IF data.timestamp.kind = "absent" THEN Raise("KeyError", "timestamp")
         ELSE fromisoformat(data.timestamp), LAMBDA ts :
    IF ts.exc # "none" THEN Failed(ts) ELSE
    Then(DecimalOfItem(data.result, "result"), LAMBDA saved :
    IF saved.exc # "none" THEN Failed(saved) ELSE
    Then([made.val[1] EXCEPT !.timestamp = ts.val], LAMBDA calc :
    Then(validate_result(calc, saved.val), LAMBDA checked :
    IF checked.exc # "none" THEN Failed(checked)
    ELSE [exc |-> "none", msg |-> <<>>, val |-> <<calc>>,
          warnings |-> checked.val]))))))))

\* from_dict.  val is the Calculation returned (none when it raised) and
\* warnings the number of warnings logged.
from_dict(data, now) ==
    Then(try_from_dict(data, now), LAMBDA r :
        IF r.exc \in CaughtByFromDict
        THEN [exc |-> "OperationError",
              msg |-> <<"Invalid calculation data: ">> \o r.msg,
              val |-> <<>>, warnings |-> 0]
        ELSE r)

\* Trailing zeros of a coefficient are removed, raising the exponent.
RECURSIVE StripRight(_, _)
StripRight(ds, e) ==
    IF Len(ds) > 1 /\ ds[Len(ds)] = 0
    THEN StripRight(SubSeq(ds, 1, Len(ds) - 1), e + 1)
    ELSE <<ds, e>>

\* Decimal.normalize
Normalize(d) ==
    IF d.kind = "snan" THEN Raise("InvalidOperation", "sNaN")
    ELSE IF d.kind = "nan" THEN Ok(d)
    ELSE LET dup == Fix(d) IN
         IF dup.kind = "inf" THEN Ok(dup)
         ELSE IF IsZero(dup) THEN Ok(Dec(dup.sign, <<0>>, 0))
         ELSE LET t == StripRight(dup.int, dup.exp) IN Ok(Dec(dup.sign, t[1], t[2]))

\* Decimal._rescale under ROUND_HALF_EVEN, of a finite non-zero value.
Rescale(d, e) ==
    IF d.exp >= e THEN Dec(d.sign, d.int \o Zeros(d.exp - e), e)
    ELSE LET digits0 == Len(d.int) + d.exp - e
             src == IF digits0 < 0 THEN <<1>> ELSE d.int
             digits == Max(digits0, 0)
             kept == IF digits = 0 THEN <<0>> ELSE SubSeq(src, 1, digits)
         IN  Dec(d.sign, IF RoundsUp(src, digits) THEN Inc(kept) ELSE kept, e)

\* Decimal.quantize(q): InvalidOperation when the result would not fit the
\* context precision, or when exactly one of the two is infinite.
Quantize(d, q) ==
    IF IsNaN(d) \/ IsNaN(q) THEN CheckNaNs(d, q)
    ELSE IF d.kind = "inf" \/ q.kind = "inf"
    THEN IF d.kind = "inf" /\ q.kind = "inf" THEN Ok(d)
         ELSE Raise("InvalidOperation", "quantize with one INF")
    ELSE IF IsZero(d) THEN Ok(Fix(Dec(d.sign, <<0>>, q.exp)))
    ELSE IF Adjusted(d) - q.exp + 1 > Prec
    THEN Raise("InvalidOperation", "exponent of quantize result too large")
    ELSE LET ans == Rescale(d, q.exp) IN
         IF Len(ans.int) > Prec
         THEN Raise("InvalidOperation", "quantize result has too many digits")
         ELSE Ok(Fix(ans))

\* self.result.normalize().quantize(Decimal(f"1.{'0' * precision}")).normalize()
round_result(d, precision) ==
    Then(Normalize(d), LAMBDA n1 :
    IF n1.exc # "none" THEN n1 ELSE
    Then(DecParse(<<"1", ".">> \o [i \in 1..precision |-> "0"]), LAMBDA q :
    IF q.exc # "none" THEN q ELSE
    Then(Quantize(n1.val, q.val), LAMBDA qz :
    IF qz.exc # "none" THEN qz ELSE Normalize(qz.val))))

\* format_result(precision): an InvalidOperation of the rounding falls back
\* to str(self.result).
format_result(self, precision) ==
    Then(round_result(self.result, precision), LAMBDA r :
        IF r.exc = "InvalidOperation" THEN Ok(DecStr(self.result))
        ELSE IF r.exc # "none" THEN Raise(r.exc, r.msg[1])
        ELSE Ok(DecStr(r.val)))

(***************************************************************************)
(* Observers (app/history.py).  The collaborator ("calculator") an         *)
(* AutoSaveObserver is bound to is described by what it exposes.           *)
(***************************************************************************)
\* LoggingObserver._validate_calculation / AutoSaveObserver._validate_calculation;
\* calculation is <<>> for None, <<c>> for a Calculation.
validate_calculation(calculation) ==
    IF calculation = <<>>
    THEN Raise("AttributeError", "Calculation cannot be None")
    ELSE Ok(NaN)

\* LoggingObserver._log_calculation: the line logged.
log_calculation(c) ==
    <<"Calculation performed: ", c.operation, " (">> \o DecStr(c.operand1)
    \o <<", ">> \o DecStr(c.operand2) \o <<") = ">> \o DecStr(c.result)

\* AutoSaveObserver._validate_calculator
validate_calculator(calculator) ==
    IF ~calculator.has_config \/ ~calculator.has_save_history
    THEN Raise("TypeError",
               "Calculator must have 'config' and 'save_history' attributes")
    ELSE Ok(NaN)

\* A faulty _auto_save_if_enabled, which saves whatever the flag says.
auto_save_always(calculator) ==
    IF ~calculator.has_auto_save
    THEN [exc |-> "AttributeError", msg |-> <<"auto_save">>, val |-> 0]
    ELSE IF ~calculator.save_callable
    THEN [exc |-> "TypeError", msg |-> <<"save_history()">>, val |-> 0]
    ELSE Ok(1)

\* AutoSaveObserver._auto_save_if_enabled: val is the number of calls of
\* calculator.save_history() it made.  Reading a flag the configuration does
\* not carry raises AttributeError; calling a save_history that takes no
\* zero-argument call raises TypeError.
auto_save_if_enabled(calculator) ==
    IF ~calculator.has_auto_save
    THEN [exc |-> "AttributeError", msg |-> <<"auto_save">>, val |-> 0]
    ELSE IF ~calculator.auto_save THEN Ok(0)
    ELSE IF ~calculator.save_callable
    THEN [exc |-> "TypeError", msg |-> <<"save_history()">>, val |-> 0]
    ELSE Ok(1)

(***************************************************************************)
(* The state machine.                                                      *)
(***************************************************************************)
\* Bounds of the model.
MaxPrecision == 1
MaxSaves == 2

\* The precision format_result takes when none is given.
DefaultPrecision == 10

\* The operands calls are made with: zero, integers, a negative, a fraction,
\* a value with a positive exponent, and the special values of the type.
Operands ==
    {DecInt(0), DecInt(1), DecInt(2), DecInt(3), DecInt(-2),
     Dec(0, <<5>>, -1), Dec(0, <<1>>, 1), Inf(0), NaN, sNaN}

\* The operation names calls are made with: the eight of the table and one
\* that is not in it.
OperationArgs == OperationNames \cup {"Unknown"}

\* The instants datetime.now() returns: one on a whole second, one not.
Times ==
    {[second |-> 1, microsecond |-> 0], [second |-> 59, microsecond |-> 248254]}

\* The precisions format_result is called with.
Precisions == (0..MaxPrecision) \cup {DefaultPrecision, Prec}

\* Values a field of a record may hold instead of the serialized one.
BadValues == {Absent, None, Str(<<"a", "b", "c">>)}
OtherDecimals == {Str(DecStr(d)) : d \in {DecInt(0), NaN, sNaN}}
OtherOperations == {Str(<<"Subtraction">>), Str(<<"Unknown">>)}
OtherTimes == {Str(<<"T", "0", "7">>), Str(<<"T", "6", "1">>)}

\* The records from_dict is given: the serialized record d, or d with one
\* field replaced.
Records(d) ==
    {d}
    \cup {[d EXCEPT !.operation = v] : v \in {Absent, None} \cup OtherOperations}
    \cup {[d EXCEPT !.operand1 = v] : v \in BadValues \cup OtherDecimals}
    \cup {[d EXCEPT !.operand2 = v] : v \in BadValues \cup OtherDecimals}
    \cup {[d EXCEPT !.result = v] : v \in BadValues \cup OtherDecimals}
    \cup {[d EXCEPT !.timestamp = v] : v \in BadValues \cup OtherTimes}

\* The collaborators an AutoSaveObserver is constructed with.
Collaborators ==
    {c \in [has_config : BOOLEAN, has_auto_save : BOOLEAN, auto_save : BOOLEAN,
            has_save_history : BOOLEAN, save_callable : BOOLEAN] :
        /\ c.has_auto_save => c.has_config
        /\ c.auto_save => c.has_auto_save
        /\ c.save_callable => c.has_save_history}

ValidCollaborator ==
    [has_config |-> TRUE, has_auto_save |-> TRUE, auto_save |-> FALSE,
     has_save_history |-> TRUE, save_callable |-> TRUE]

VARIABLES
    calc,        \* the Calculation the caller constructed: <<>> or <<c>>
    ret,         \* the last call: its name, arguments, result and exception
    calculator,  \* the collaborator of the AutoSaveObserver
    bound,       \* whether an AutoSaveObserver was constructed on calculator
    saves,       \* calls of calculator.save_history() made so far
    due          \* updates so far made with a Calculation while auto_save was true

vars == <<calc, ret, calculator, bound, saves, due>>

\* The record of a call.  op, x, y: the arguments of Calculation(...);
\* on: the Calculation a method was called on, an update was given (<<>> for
\* None) or from_dict returned; record: the record to_dict returned or
\* from_dict was given; prec: the precision; out: the string returned or the
\* line logged; warnings, saved: the warnings logged and the calls of
\* save_history() made; flag: auto_save as the call found it.
Call(name) ==
    [call |-> name, exc |-> "none", msg |-> <<>>, op |-> "", x |-> Zero,
     y |-> Zero, on |-> <<>>, record |-> <<>>, prec |-> 0, out |-> <<>>,
     warnings |-> 0, saved |-> 0, flag |-> FALSE]

\* The Calculations that exist: the caller's, and the one from_dict returned.
Existing ==
    {calc[i] : i \in 1..Len(calc)}
    \cup (IF ret.call = "from_dict" THEN {ret.on[i] : i \in 1..Len(ret.on)} ELSE {})

\* What an observer is notified with: None or the caller's Calculation.
Arguments == {<<>>, calc}

InitCalc ==
    /\ calc = <<>>
    /\ ret = Call("init")
    /\ saves = 0
    /\ due = 0

\* No Calculation yet; an AutoSaveObserver bound to a collaborator whose
\* auto_save is off.
Init ==
    /\ InitCalc
    /\ calculator = ValidCollaborator
    /\ bound = TRUE

\* Calculation(operation, x, y)
Construct(operation, x, y, now) ==
    /\ calc = <<>>
    /\ \E r \in {Calculation(operation, x, y, now)} :
          /\ calc' = r.val
          /\ ret' = [Call("Calculation") EXCEPT !.exc = r.exc, !.msg = r.msg,
                        !.op = operation, !.x = x, !.y = y, !.on = r.val]
    /\ UNCHANGED <<calculator, bound, saves, due>>

\* calc.to_dict()
ToDict ==
    /\ calc # <<>>
    /\ ret' = [Call("to_dict") EXCEPT !.on = calc, !.record = <<to_dict(calc[1])>>]
    /\ UNCHANGED <<calc, calculator, bound, saves, due>>

\* Calculation.from_dict(record), of a record to_dict just returned or of
\* that record with one field replaced.
FromDict(record, now) ==
    /\ \E r \in {from_dict(record, now)} :
          ret' = [Call("from_dict") EXCEPT !.exc = r.exc, !.msg = r.msg,
                     !.on = r.val, !.record = <<record>>,
                     !.warnings = r.warnings]
    /\ UNCHANGED <<calc, calculator, bound, saves, due>>

\* calc.format_result(precision)
FormatResult(precision) ==
    /\ calc # <<>>
    /\ \E r \in {format_result(calc[1], precision)} :
          ret' = [Call("format_result") EXCEPT !.exc = r.exc, !.msg = r.msg,
                     !.on = calc, !.prec = precision, !.out = r.val]
    /\ UNCHANGED <<calc, calculator, bound, saves, due>>

\* LoggingObserver.update(calculation)
LoggingUpdate(calculation) ==
    LET v == validate_calculation(calculation) IN
    /\ ret' = [Call("LoggingObserver.update") EXCEPT !.exc = v.exc, !.msg = v.msg,
                  !.on = calculation,
                  !.out = IF v.exc = "none" THEN log_calculation(calculation[1])
                          ELSE <<>>]
    /\ UNCHANGED <<calc, calculator, bound, saves, due>>

\* AutoSaveObserver(calculator)
NewAutoSaveObserver ==
    LET v == validate_calculator(calculator) IN
    /\ ~bound
    /\ bound' = (v.exc = "none")
    /\ ret' = [Call("AutoSaveObserver") EXCEPT !.exc = v.exc, !.msg = v.msg]
    /\ UNCHANGED <<calc, calculator, saves, due>>

\* The collaborator's configuration is changed: config.auto_save = b.
SetAutoSave(b) ==
    /\ calculator.has_auto_save
    /\ calculator.auto_save # b
    /\ calculator' = [calculator EXCEPT !.auto_save = b]
    /\ ret' = Call("set auto_save")
    /\ UNCHANGED <<calc, bound, saves, due>>

\* AutoSaveObserver.update(calculation)
update(calculation) ==
    LET v == validate_calculation(calculation) IN
    IF v.exc # "none" THEN [exc |-> v.exc, msg |-> v.msg, val |-> 0]
    ELSE auto_save_if_enabled(calculator)

AutoSaveUpdate(calculation) ==
    LET r == update(calculation)
        now_due == IF calculation # <<>> /\ calculator.has_auto_save
                      /\ calculator.auto_save THEN 1 ELSE 0
    IN  /\ bound
        /\ saves < MaxSaves
        /\ due < MaxSaves
        /\ saves' = saves + r.val
        /\ due' = due + now_due
        /\ ret' = [Call("AutoSaveObserver.update") EXCEPT !.exc = r.exc,
                      !.msg = r.msg, !.on = calculation, !.saved = r.val,
                      !.flag = calculator.auto_save,
                      !.out = IF r.val = 1 THEN <<"History auto-saved">> ELSE <<>>]
        /\ UNCHANGED <<calc, calculator, bound>>

Next ==
    \/ \E operation \in OperationArgs, x \in Operands, y \in Operands, now \in Times :
          Construct(operation, x, y, now)
    \/ ToDict
    \/ \E now \in Times :
          /\ ret.call = "to_dict"
          /\ \E record \in Records(ret.record[1]) : FromDict(record, now)
    \/ \E precision \in Precisions : FormatResult(precision)
    \/ \E calculation \in Arguments : LoggingUpdate(calculation)
    \/ \E calculation \in Arguments : AutoSaveUpdate(calculation)

Spec == Init /\ [][Next]_vars

\* The observers alone: no AutoSaveObserver yet, and the collaborator is any
\* of Collaborators.
InitObs ==
    /\ InitCalc
    /\ calculator \in Collaborators
    /\ bound = FALSE

NextObs ==
    \/ \E now \in Times : Construct("Addition", DecInt(2), DecInt(3), now)
    \/ NewAutoSaveObserver
    \/ \E b \in BOOLEAN : SetAutoSave(b)
    \/ \E calculation \in Arguments : LoggingUpdate(calculation)
    \/ \E calculation \in Arguments : AutoSaveUpdate(calculation)

SpecObs == InitObs /\ [][NextObs]_vars

(***************************************************************************)
(* Properties.                                                             *)
(***************************************************************************)
\* Two decimals are the same value: numerically equal, or both the same
\* kind of NaN.
SameValue(a, b) ==
    IF IsNaN(a) \/ IsNaN(b) THEN a.kind = b.kind ELSE DecCmp(a, b) = 0

SameFields(c, d) ==
    /\ c.operation = d.operation
    /\ SameValue(c.operand1, d.operand1)
    /\ SameValue(c.operand2, d.operand2)
    /\ SameValue(c.result, d.result)

\* from_dict was called with the record to_dict returned for calc.
RoundTrip ==
    /\ ret.call = "from_dict"
    /\ calc # <<>>
    /\ ret.record = <<to_dict(calc[1])>>

\* C1: from_dict(to_dict(c)) succeeds for every constructed c and returns a
\* Calculation with the operation, operand1, operand2 and result of c, and
\* with the timestamp serialized in the record.
C1_RoundTrip ==
    RoundTrip =>
        /\ ret.exc = "none"
        /\ Len(ret.on) = 1
        /\ SameFields(ret.on[1], calc[1])
        /\ Str(isoformat(ret.on[1].timestamp)) = ret.record[1].timestamp
        /\ ret.on[1].timestamp = calc[1].timestamp

\* A Division whose quotient is rounded, constructed at an instant with
\* microseconds, came back from its own record.
C1_RoundTripWitness ==
    /\ RoundTrip
    /\ ret.exc = "none"
    /\ calc[1].operation = "Division"
    /\ Len(calc[1].result.int) = Prec
    /\ calc[1].timestamp.microsecond # 0

\* C2: Calculation(operation, x, y) either returns a Calculation or raises
\* OperationError; no other exception leaves it.
C2_TwoOutcomes ==
    ret.call = "Calculation" =>
        \/ ret.exc = "none" /\ Len(ret.on) = 1 /\ calc = ret.on
        \/ ret.exc = "OperationError" /\ ret.on = <<>> /\ calc = <<>>

\* A field of a record is a decimal value / an ISO-8601 time.
WellFormedNumber(v) == v.kind = "str" /\ DecParse(v.chars).exc = "none"
WellFormedTime(v) == v.kind = "str" /\ fromisoformat(v).exc = "none"

\* A required field of the record is absent, or a number or the time is
\* malformed.
Malformed(rec) ==
    \/ \E f \in {"operation", "operand1", "operand2", "result", "timestamp"} :
          rec[f].kind = "absent"
    \/ \E f \in {"operand1", "operand2", "result"} : ~WellFormedNumber(rec[f])
    \/ ~WellFormedTime(rec.timestamp)

\* C3: from_dict raises OperationError and returns nothing whenever a
\* required field is absent or malformed, whatever the field holds.
C3_MalformedRecord ==
    ret.call = "from_dict" /\ Malformed(ret.record[1]) =>
        ret.exc = "OperationError" /\ ret.on = <<>>

WellFormed(rec) ==
    /\ rec.operation.kind = "str"
    /\ \A f \in {"operand1", "operand2", "result"} : WellFormedNumber(rec[f])
    /\ WellFormedTime(rec.timestamp)

\* The value recomputed from the operation and the operands of a well-formed
\* record.
Recomputed(rec) ==
    perform_calculation(rec.operation.chars[1], DecParse(rec.operand1.chars).val,
                        DecParse(rec.operand2.chars).val)

Stored(rec) == DecParse(rec.result.chars).val

\* C4: given a well-formed record whose operation and operands evaluate,
\* from_dict does not fail and returns the recomputed result; it logs one
\* warning when the stored result differs from it and none when it equals it.
C4_StoredResult ==
    /\ ret.call = "from_dict"
    /\ WellFormed(ret.record[1])
    /\ Recomputed(ret.record[1]).exc = "none"
    => /\ ret.exc = "none"
       /\ Len(ret.on) = 1
       /\ ret.on[1].result = Recomputed(ret.record[1]).val
       /\ ret.warnings = IF SameValue(Stored(ret.record[1]),
                                      Recomputed(ret.record[1]).val)
                         THEN 0 ELSE 1

\* The operation of c applied to its own operands, for the six operations
\* computed in decimal arithmetic.
Applied(c) ==
    CASE c.operation = "Addition" -> DecAdd(c.operand1, c.operand2)
      [] c.operation = "Subtraction" -> DecSub(c.operand1, c.operand2)
      [] c.operation = "Multiplication" -> DecMul(c.operand1, c.operand2)
      [] c.operation = "Division" -> DecDiv(c.operand1, c.operand2)
      [] c.operation = "Average" ->
            DecDiv(DecAdd(c.operand1, c.operand2).val, DecInt(2))
      [] c.operation = "Mod" -> DecMod(c.operand1, c.operand2)

Consistent(c) ==
    c.operation \in {"Addition", "Subtraction", "Multiplication", "Division",
                     "Average", "Mod"}
    => Applied(c).exc = "none" /\ SameValue(c.result, Applied(c).val)

\* A call of to_dict, format_result or an observer's update leaves the
\* Calculation it was given as it was.
Unmutated ==
    ret'.call \in {"to_dict", "format_result", "LoggingObserver.update",
                   "AutoSaveObserver.update"}
    => calc' = calc /\ ret'.on \in {<<>>, calc}

\* C5: every Calculation that exists holds the result of its operation
\* applied to its own operands, and to_dict, format_result and the observers'
\* update change no field of a Calculation.
C5_ResultConsistent ==
    [](\A c \in Existing : Consistent(c)) /\ [][Unmutated]_vars

\* from_dict returned a Subtraction although the record stored another
\* result, after the caller's Calculation was serialized.
C5_ResultConsistentWitness ==
    /\ ret.call = "from_dict"
    /\ ret.exc = "none"
    /\ ret.warnings = 1
    /\ ret.on[1].operation = "Subtraction"
    /\ calc # <<>>
    /\ ret.on[1] \in Existing

IsNegative(d) == d.kind \in {"fin", "inf"} /\ d.sign = 1 /\ ~IsZero(d)

\* The operands violate the precondition of the operation.
ViolatesPrecondition(operation, x, y) ==
    \/ operation \in {"Division", "Mod"} /\ IsZero(y)
    \/ operation = "Power" /\ IsNegative(y)
    \/ operation = "Root" /\ (IsNegative(x) \/ IsZero(y))

\* C6: Calculation(operation, x, y) raises OperationError and constructs
\* nothing when y is zero for Division or Mod, y is negative for Power, or
\* x is negative or y is zero for Root.
C6_Preconditions ==
    ret.call = "Calculation" /\ ViolatesPrecondition(ret.op, ret.x, ret.y) =>
        ret.exc = "OperationError" /\ ret.on = <<>> /\ calc = <<>>

\* A Power with a negative exponent was refused.
C6_PreconditionsWitness ==
    /\ ret.call = "Calculation"
    /\ ret.op = "Power"
    /\ IsNegative(ret.y)
    /\ ret.x = DecInt(2)
    /\ ret.exc = "OperationError"

\* The collaborator has both capabilities: a configuration with an auto_save
\* flag, and a save_history() that takes no argument.
Capable(c) ==
    c.has_config /\ c.has_auto_save /\ c.has_save_history /\ c.save_callable

\* C7: AutoSaveObserver(calculator) raises TypeError when the collaborator
\* lacks a capability, so that an update with a Calculation never fails on a
\* missing capability.
C7_Capabilities ==
    /\ ret.call = "AutoSaveObserver" /\ ~Capable(calculator)
       => ret.exc = "TypeError" /\ ~bound
    /\ ret.call = "AutoSaveObserver.update" /\ ret.on # <<>>
       => ret.exc = "none"

\* C8: with a capable collaborator, save_history() is called once by every
\* update made with a Calculation while auto_save is true, and by no other;
\* an update with None raises AttributeError before anything is done.
C8_SavesOncePerUpdate ==
    Capable(calculator) =>
        /\ saves = due
        /\ ret.call = "AutoSaveObserver.update" =>
              /\ ret.saved = IF ret.on # <<>> /\ ret.flag THEN 1 ELSE 0
              /\ ret.on = <<>> =>
                    ret.exc = "AttributeError" /\ ret.out = <<>>
              /\ ret.on # <<>> => ret.exc = "none"

\* A second save was made by an update with a Calculation.
C8_SavesOncePerUpdateWitness ==
    /\ Capable(calculator)
    /\ ret.call = "AutoSaveObserver.update"
    /\ ret.on # <<>>
    /\ ret.flag
    /\ ret.saved = 1
    /\ saves = 2

\* C9: an operation that is not in the table raises OperationError naming
\* the unknown operation, whatever the operands are (a zero divisor, a
\* signaling NaN), and constructs nothing.
C9_UnknownOperation ==
    ret.call = "Calculation" /\ ret.op \notin OperationNames =>
        /\ ret.exc = "OperationError"
        /\ Len(ret.msg) >= 2
        /\ SubSeq(ret.msg, Len(ret.msg) - 1, Len(ret.msg))
              = <<"Unknown operation: ", ret.op>>
        /\ ret.on = <<>>
        /\ calc = <<>>

\* An unknown operation was refused although the second operand is zero.
C9_UnknownOperationWitness ==
    /\ ret.call = "Calculation"
    /\ ret.op = "Unknown"
    /\ IsZero(ret.y)
    /\ ret.exc = "OperationError"

\* The digits of a finite d in units of 10^-p, rounded half-even.
RoundedUnits(d, p) ==
    LET shift == d.exp + p
        keep == Len(d.int) + shift
        kept == IF keep <= 0 THEN <<0>> ELSE SubSeq(d.int, 1, keep)
        first == IF keep < 0 THEN 0 ELSE d.int[keep + 1]
        rest == SubSeq(d.int, Max(keep, 0) + 2, Len(d.int))
        up == \/ first > 5
              \/ first = 5 /\ ~AllZeros(rest)
              \/ first = 5 /\ kept[Len(kept)] % 2 = 1
    IN  IF shift >= 0 THEN StripLeft(d.int \o Zeros(shift))
        ELSE IF up THEN Inc(kept) ELSE kept

\* Digits in positional notation with p fractional digits, the trailing
\* zeros of the fraction removed.
PlainString(sign, units, p) ==
    LET ds == Zeros(p + 1 - Len(units)) \o units
        n == Len(ds) - p
        frac == SubSeq(ds, n + 1, Len(ds))
        last == IF AllZeros(frac) THEN 0
                ELSE CHOOSE i \in 1..p : frac[i] # 0 /\ AllZeros(SubSeq(frac, i + 1, p))
    IN  (IF sign = 1 THEN <<"-">> ELSE <<>>)
        \o DigitChars(SubSeq(ds, 1, n))
        \o (IF last = 0 THEN <<>> ELSE <<".">> \o DigitChars(SubSeq(frac, 1, last)))

\* What format_result is to return: d rounded to p fractional digits in
\* plain digits, or str(d) when d is not finite or the rounded value does not
\* fit the precision of the arithmetic.
ExpectedFormat(d, p) ==
    IF d.kind # "fin" \/ Len(RoundedUnits(d, p)) > Prec THEN DecStr(d)
    ELSE PlainString(d.sign, RoundedUnits(d, p), p)

\* C10: format_result(precision) returns the result rounded to precision
\* fractional digits, in plain digits without trailing fractional zeros, and
\* str(result) only when the rounding is not representable.
C10_FormatResult ==
    ret.call = "format_result" =>
        ret.exc = "none" /\ ret.out = ExpectedFormat(ret.on[1].result, ret.prec)
====
